---- MODULE Spec2Model ----
(***************************************************************************)
(* Model of the template tools and the research layer of bayon-coagent:    *)
(*   scripts/optimize-template.py      optimize_template()                 *)
(*   infrastructure/split-template.py  split_template()                    *)
(*   src/services/strands/*.py         main(), run_research_query()        *)
(* A text is a sequence of one-character strings.  A list of lines is a    *)
(* sequence of texts, each ending in "\n" except possibly the last one,    *)
(* exactly as file.readlines() returns them.                               *)
(***************************************************************************)
EXTENDS Integers, Sequences, FiniteSets, TLC

VARIABLES
    template,         \* text of the file 'template.yaml' read by optimize_template
    opc,              \* position of optimize_template
    lines,            \* optimize_template: lines
    optimized_lines,  \* optimize_template: optimized_lines
    final_lines,      \* optimize_template: final_lines
    optimized_file,   \* text of 'template-optimized.yaml', Absent before it is written
    content,          \* split_template: content, a sequence of document symbols
    spc,              \* position of split_template
    section_idx,      \* split_template: index of the next entry of sections
    start_pos,        \* split_template: start_pos of the section last examined
    end_pos,          \* split_template: end_pos of the section last examined
    split_files,      \* files written below infrastructure/cloudformation/split
    warnings,         \* file names for which the start-marker warning was printed
    written,          \* the paths created or written so far, with the tool that did it
    opt_report,       \* optimize_template: the figures it printed and its return value
    split_report,     \* split_template: the figures it printed
    runs,             \* number of the current run of split_template
    first_files,      \* split_files as the first run of split_template left them
    request,          \* research: sys.argv[1:] and the text on standard input
    rpc,              \* research: position of each entry point's process
    result,           \* research: main's result, NoResult before it is assigned
    stdout,           \* research: the documents each process printed on standard output
    exit_status,      \* research: <<>> while the process runs, then <<its exit status>>
    query_calls,      \* research: how often each process called run_research_query
    research_agent,   \* research-agent.py: _research_agent, NoAgent for None
    creations,        \* research-agent.py: invocations of create_enhanced_research_agent
    queries           \* research-agent.py: the run_research_query calls of a library process

vars == <<template, opc, lines, optimized_lines, final_lines, optimized_file,
          content, spc, section_idx, start_pos, end_pos, split_files, warnings,
          written, opt_report, split_report, runs, first_files,
          request, rpc, result, stdout, exit_status, query_calls,
          research_agent, creations, queries>>

optVars == <<opc, lines, optimized_lines, final_lines, opt_report>>

splitVars == <<content, spc, section_idx, start_pos, end_pos, split_files, warnings,
               split_report, runs, first_files>>

researchVars == <<request, rpc, result, stdout, exit_status, query_calls,
                  research_agent, creations, queries>>

\* the files of the working directory and the log of writes
fileVars == <<template, optimized_file, written>>

Absent == <<"<absent>">>

(***************************************************************************)
(* Bounds of the model.                                                    *)
(***************************************************************************)
MaxLen == 6

MaxDocLen == 4

MaxRuns == 2

(***************************************************************************)
(* Python string primitives.                                               *)
(***************************************************************************)
Whitespace == {" ", "\t", "\n"}

Min(a, b) == IF a < b THEN a ELSE b

Max(a, b) == IF a > b THEN a ELSE b

\* s[a:b] with Python's treatment of negative and out-of-range indices
PySlice(s, a, b) ==
    LET n  == Len(s)
        lo == IF a < 0 THEN Max(a + n, 0) ELSE Min(a, n)
        hi == IF b < 0 THEN Max(b + n, 0) ELSE Min(b, n)
    IN  IF lo >= hi THEN <<>> ELSE SubSeq(s, lo + 1, hi)

\* does sub occur in s at 0-based offset i
OccursAt(s, sub, i) ==
    /\ i >= 0
    /\ i + Len(sub) <= Len(s)
    /\ \A k \in 1..Len(sub) : s[i + k] = sub[k]

Occurrences(s, sub) == {i \in 0..Len(s) : OccursAt(s, sub, i)}

\* s.find(sub): lowest 0-based offset, -1 when absent
PyFind(s, sub) ==
    LET occ == Occurrences(s, sub)
    IN  IF occ = {} THEN -1 ELSE CHOOSE i \in occ : \A j \in occ : i <= j

\* s.rfind(sub): highest 0-based offset, -1 when absent
PyRFind(s, sub) ==
    LET occ == Occurrences(s, sub)
    IN  IF occ = {} THEN -1 ELSE CHOOSE i \in occ : \A j \in occ : i >= j

\* sub in s
PyContains(s, sub) == Occurrences(s, sub) # {}

RECURSIVE RStrip(_)
RStrip(s) ==
    IF s = <<>> THEN <<>>
    ELSE IF s[Len(s)] \in Whitespace THEN RStrip(SubSeq(s, 1, Len(s) - 1))
    ELSE s

RECURSIVE LStrip(_)
LStrip(s) ==
    IF s = <<>> THEN <<>>
    ELSE IF Head(s) \in Whitespace THEN LStrip(Tail(s))
    ELSE s

Strip(s) == LStrip(RStrip(s))

\* the positions at which a line of the text ends, in increasing order
LineEnds(text) ==
    SelectSeq([i \in 1..Len(text) |-> i],
              LAMBDA i : text[i] = "\n" \/ i = Len(text))

\* f.readlines(): cut the text after every "\n"
ReadLines(text) ==
    LET ends == LineEnds(text)
    IN  [k \in 1..Len(ends) |->
            SubSeq(text, IF k = 1 THEN 1 ELSE ends[k - 1] + 1, ends[k])]

\* f.writelines(ls): the concatenation of the lines, first half then second half
RECURSIVE WriteLines(_)
WriteLines(ls) ==
    IF ls = <<>> THEN <<>>
    ELSE IF Len(ls) = 1 THEN ls[1]
    ELSE LET mid == Len(ls) \div 2
         IN  WriteLines(SubSeq(ls, 1, mid)) \o WriteLines(SubSeq(ls, mid + 1, Len(ls)))

(***************************************************************************)
(* optimize_template, first loop.                                          *)
(***************************************************************************)
Divider == <<"=", "=", "=", "=", "=", "=", "=", "=", "=", "=">>

\* re.match(r'^\s*#', line)
IsPureComment(line) ==
    \E k \in 1..Len(line) :
        /\ line[k] = "#"
        /\ \A j \in 1..(k - 1) : line[j] \in Whitespace

\* the body of "if '#' in line:", using the last marker instead of the first
StripInlineLast(line) ==
    IF PyContains(line, <<"#">>)
    THEN LET comment_pos == PyRFind(line, <<"#">>)
         IN  IF comment_pos > 0
                /\ PySlice(line, comment_pos - 1, comment_pos + 1) = <<" ", "#">>
             THEN RStrip(PySlice(line, 0, comment_pos)) \o <<"\n">>
             ELSE line
    ELSE line

\* the body of "if '#' in line:", cutting at the marker whatever precedes it
StripInlineAny(line) ==
    IF PyContains(line, <<"#">>)
    THEN LET comment_pos == PyFind(line, <<"#">>)
         IN  IF comment_pos > 0
             THEN RStrip(PySlice(line, 0, comment_pos)) \o <<"\n">>
             ELSE line
    ELSE line

\* the body of "if '#' in line:", keeping the whitespace before the marker
StripInlineNoRStrip(line) ==
    IF PyContains(line, <<"#">>)
    THEN LET comment_pos == PyFind(line, <<"#">>)
         IN  IF comment_pos > 0
                /\ PySlice(line, comment_pos - 1, comment_pos + 1) = <<" ", "#">>
             THEN PySlice(line, 0, comment_pos) \o <<"\n">>
             ELSE line
    ELSE line

\* the body of "if '#' in line:", cutting behind the marker
StripInlineKeepsMarker(line) ==
    IF PyContains(line, <<"#">>)
    THEN LET comment_pos == PyFind(line, <<"#">>)
         IN  IF comment_pos > 0
                /\ PySlice(line, comment_pos - 1, comment_pos + 1) = <<" ", "#">>
             THEN RStrip(PySlice(line, 0, comment_pos + 1)) \o <<"\n">>
             ELSE line
    ELSE line

\* the body of "if '#' in line:"
StripInline(line) ==
    IF PyContains(line, <<"#">>)
    THEN LET comment_pos == PyFind(line, <<"#">>)
         IN  IF comment_pos > 0
                /\ PySlice(line, comment_pos - 1, comment_pos + 1) = <<" ", "#">>
             THEN RStrip(PySlice(line, 0, comment_pos)) \o <<"\n">>
             ELSE line
    ELSE line

\* the comment test of the first loop, accepting a marker only in column 0
SkipsLineColumn0(line) == line # <<>> /\ Head(line) = "#"

\* the comment test of the first loop, skipping every line that has a marker
SkipsLineAnyMarker(line) == PyContains(line, <<"#">>)

\* the first loop skips the line: both arms of the divider test continue
SkipsLine(line) ==
    IF IsPureComment(line)
    THEN (IF PyContains(line, Divider) THEN TRUE ELSE TRUE)
    ELSE FALSE

\* for line in lines: ... optimized_lines.append(line)
FilterLines(ls, acc) ==
    LET kept == SelectSeq(ls, LAMBDA line : ~SkipsLine(line))
    IN  acc \o [i \in 1..Len(kept) |-> StripInline(kept[i])]

(***************************************************************************)
(* optimize_template, second loop.                                         *)
(***************************************************************************)
IsBlank(line) == Strip(line) = <<>>

\* the second loop from a state of empty_count and final_lines over the lines
\* ls: its body for one line, and for more lines the loop over the first half,
\* whose state is computed before the second half is entered
RECURSIVE CollapseLoop(_, _)
CollapseLoop(ls, state) ==
    IF ls = <<>> THEN state
    ELSE IF Len(ls) = 1
    THEN LET line == ls[1]
         IN  IF IsBlank(line)
             THEN IF state.empty_count + 1 <= 2
                  THEN [empty_count |-> state.empty_count + 1,
                        final_lines |-> Append(state.final_lines, line)]
                  ELSE [empty_count |-> state.empty_count + 1,
                        final_lines |-> state.final_lines]
             ELSE [empty_count |-> 0, final_lines |-> Append(state.final_lines, line)]
    ELSE LET mid   == Len(ls) \div 2
             first == CollapseLoop(SubSeq(ls, 1, mid), state)
         IN  IF first.empty_count >= 0
             THEN CollapseLoop(SubSeq(ls, mid + 1, Len(ls)), first)
             ELSE first

\* the second loop with the limit test "empty_count <= 3"
RECURSIVE CollapseLinesOff(_, _, _)
CollapseLinesOff(ls, empty_count, acc) ==
    IF ls = <<>> THEN acc
    ELSE IF IsBlank(Head(ls))
         THEN IF empty_count + 1 <= 3
              THEN CollapseLinesOff(Tail(ls), empty_count + 1, Append(acc, Head(ls)))
              ELSE CollapseLinesOff(Tail(ls), empty_count + 1, acc)
         ELSE CollapseLinesOff(Tail(ls), 0, Append(acc, Head(ls)))

\* the second loop without "empty_count = 0" in the else branch
RECURSIVE CollapseLinesNoReset(_, _, _)
CollapseLinesNoReset(ls, empty_count, acc) ==
    IF ls = <<>> THEN acc
    ELSE IF IsBlank(Head(ls))
         THEN IF empty_count + 1 <= 2
              THEN CollapseLinesNoReset(Tail(ls), empty_count + 1, Append(acc, Head(ls)))
              ELSE CollapseLinesNoReset(Tail(ls), empty_count + 1, acc)
         ELSE CollapseLinesNoReset(Tail(ls), empty_count, Append(acc, Head(ls)))

\* for line in optimized_lines: ... final_lines.append(line)
CollapseLines(ls, empty_count, acc) ==
    CollapseLoop(ls, [empty_count |-> empty_count, final_lines |-> acc]).final_lines

\* the line transformation of optimize_template: readlines, both loops, writelines
Optimize(text) ==
    WriteLines(CollapseLines(FilterLines(ReadLines(text), <<>>), 0, <<>>))

(***************************************************************************)
(* Source documents of the optimizer.                                      *)
(***************************************************************************)
Alphabet == {"a", " ", "\t", "#", "\n"}

Texts(n) == UNION {[1..k -> Alphabet] : k \in 0..n}

\* value: "a # b"
QuotedMarkerLine ==
    <<"v", "a", "l", "u", "e", ":", " ", "\"", "a", " ", "#", " ", "b", "\"", "\n">>

\* key: value  # trailing note
TrailingNoteLine ==
    <<"k", "e", "y", ":", " ", "v", "a", "l", "u", "e", " ", " ", "#", " ",
      "t", "r", "a", "i", "l", "i", "n", "g", " ", "n", "o", "t", "e", "\n">>

\*   # ==========
DividerLine == <<" ", " ", "#", " ">> \o Divider \o <<"\n">>

RECURSIVE Repeat(_, _)
Repeat(text, n) == IF n = 0 THEN <<>> ELSE text \o Repeat(text, n - 1)

\* 100 lines and 4,000 characters, of which 60 lines and 2,400 characters stay
MetricsText ==
    Repeat(<<"#">> \o [i \in 1..38 |-> "c"] \o <<"\n">>, 40)
        \o Repeat([i \in 1..39 |-> "k"] \o <<"\n">>, 60)

ScenarioTexts ==
    { MetricsText,
      QuotedMarkerLine,
      TrailingNoteLine,
      DividerLine \o <<"\t", "#", "\n">> \o TrailingNoteLine,
      <<"a", "\n">> \o DividerLine \o QuotedMarkerLine }

SourceTexts == Texts(MaxLen) \cup ScenarioTexts

(***************************************************************************)
(* The files of the working directory.                                     *)
(***************************************************************************)
SourcePath == <<"template.yaml">>

\* the output written over the source
OptOutputPathSource == <<"template.yaml">>

\* the path optimize_template writes
OptOutputPath == <<"template-optimized.yaml">>

\* open(path, 'w') followed by a write, for a path of the working directory
CwdWrite(tool, path, text) ==
    /\ template' = IF path = SourcePath THEN text ELSE template
    /\ optimized_file' = IF path = <<"template-optimized.yaml">> THEN text ELSE optimized_file
    /\ written' = written \cup {[tool |-> tool, path |-> path]}

(***************************************************************************)
(* The figures printed at the end of both tools.                           *)
(***************************************************************************)
\* sum(len(line) for line in ls), first half then second half
RECURSIVE SumLen(_)
SumLen(ls) ==
    IF ls = <<>> THEN 0
    ELSE IF Len(ls) = 1 THEN Len(ls[1])
    ELSE LET mid == Len(ls) \div 2
         IN  SumLen(SubSeq(ls, 1, mid)) + SumLen(SubSeq(ls, mid + 1, Len(ls)))

\* the share that is left instead of the share that was removed
PercentTenthsLeft(before, after) ==
    LET num == 1000 * after
        q   == num \div before
        r   == num - q * before
    IN  IF 2 * r > before \/ (2 * r = before /\ q % 2 = 1) THEN q + 1 ELSE q

\* f"{((before - after) / before * 100):.1f}", as a number of tenths: the
\* quotient rounded to the nearest tenth
PercentTenths(before, after) ==
    LET num == 1000 * (before - after)
        q   == num \div before
        r   == num - q * before
    IN  IF 2 * r > before \/ (2 * r = before /\ q % 2 = 1) THEN q + 1 ELSE q

Threshold == 5500

\* the return value with "<=" for "<"
BelowThresholdInclusive(optimized_lines_count) == optimized_lines_count <= Threshold

\* return optimized_lines_count < 5500
BelowThreshold(optimized_lines_count) == optimized_lines_count < Threshold

\* lines 58-68 of optimize_template
OptFigures(ls, fls) ==
    LET original_lines        == Len(ls)
        optimized_lines_count == Len(fls)
        original_size         == SumLen(ls)
        optimized_size        == SumLen(fls)
    IN  [printed               |-> TRUE,
         original_lines        |-> original_lines,
         optimized_lines_count |-> optimized_lines_count,
         lines_reduction       |-> PercentTenths(original_lines, optimized_lines_count),
         original_size         |-> original_size,
         optimized_size        |-> optimized_size,
         size_reduction        |-> PercentTenths(original_size, optimized_size),
         returns               |-> BelowThreshold(optimized_lines_count)]

(***************************************************************************)
(* optimize_template as a state machine.                                   *)
(***************************************************************************)
\* with open('template.yaml', 'r') as f: lines = f.readlines()
OptRead ==
    /\ opc = "start"
    /\ template # Absent
    /\ lines' = ReadLines(template)
    /\ opc' = "read"
    /\ UNCHANGED <<optimized_lines, final_lines, opt_report>>
    /\ UNCHANGED fileVars
    /\ UNCHANGED splitVars
    /\ UNCHANGED researchVars

\* open('template.yaml', 'r') raises FileNotFoundError
OptReadFails ==
    /\ opc = "start"
    /\ template = Absent
    /\ opc' = "failed"
    /\ UNCHANGED <<lines, optimized_lines, final_lines, opt_report>>
    /\ UNCHANGED fileVars
    /\ UNCHANGED splitVars
    /\ UNCHANGED researchVars

OptFilter ==
    /\ opc = "read"
    /\ optimized_lines' = FilterLines(lines, <<>>)
    /\ opc' = "filtered"
    /\ UNCHANGED <<lines, final_lines, opt_report>>
    /\ UNCHANGED fileVars
    /\ UNCHANGED splitVars
    /\ UNCHANGED researchVars

OptCollapse ==
    /\ opc = "filtered"
    /\ final_lines' = CollapseLines(optimized_lines, 0, <<>>)
    /\ opc' = "collapsed"
    /\ UNCHANGED <<lines, optimized_lines, opt_report>>
    /\ UNCHANGED fileVars
    /\ UNCHANGED splitVars
    /\ UNCHANGED researchVars

\* with open('template-optimized.yaml', 'w') as f: f.writelines(final_lines)
OptWrite ==
    /\ opc = "collapsed"
    /\ CwdWrite("optimize", OptOutputPath, WriteLines(final_lines))
    /\ opc' = "written"
    /\ UNCHANGED <<lines, optimized_lines, final_lines, opt_report>>
    /\ UNCHANGED splitVars
    /\ UNCHANGED researchVars

\* the figures are computed and printed, and the function returns
OptReport ==
    /\ opc = "written"
    /\ Len(lines) # 0
    /\ opt_report' = OptFigures(lines, final_lines)
    /\ opc' = "done"
    /\ UNCHANGED <<lines, optimized_lines, final_lines>>
    /\ UNCHANGED fileVars
    /\ UNCHANGED splitVars
    /\ UNCHANGED researchVars

\* original_lines is 0: the division of the first figure raises ZeroDivisionError
OptReportFails ==
    /\ opc = "written"
    /\ Len(lines) = 0
    /\ opc' = "failed"
    /\ UNCHANGED <<lines, optimized_lines, final_lines, opt_report>>
    /\ UNCHANGED fileVars
    /\ UNCHANGED splitVars
    /\ UNCHANGED researchVars

NoReport == [printed |-> FALSE]

(***************************************************************************)
(* The research entry points, idle while a template tool runs.             *)
(***************************************************************************)
\* the scripts with a main() that answers a research request
EntryPoints == {"run-research.py", "bayon-research-agent.py", "simple-research-agent.py"}

\* no request was given
NoRequest == [argv |-> <<>>, stdin |-> <<>>]

\* result before main assigns it
NoResult == [assigned |-> FALSE]

\* _research_agent = None
NoAgent == [none |-> TRUE]

ResearchIdle ==
    /\ request = NoRequest
    /\ rpc = [e \in EntryPoints |-> "idle"]
    /\ result = [e \in EntryPoints |-> NoResult]
    /\ stdout = [e \in EntryPoints |-> <<>>]
    /\ exit_status = [e \in EntryPoints |-> <<>>]
    /\ query_calls = [e \in EntryPoints |-> 0]
    /\ research_agent = NoAgent
    /\ creations = 0
    /\ queries = <<>>

SplitIdle ==
    /\ content = <<>>
    /\ spc = "idle"
    /\ section_idx = 1
    /\ start_pos = -1
    /\ end_pos = -1
    /\ split_files = <<>>
    /\ warnings = {}
    /\ split_report = NoReport
    /\ runs = 1
    /\ first_files = <<>>

InitOptimize ==
    /\ template \in SourceTexts \cup {Absent}
    /\ opc = "start"
    /\ lines = <<>>
    /\ optimized_lines = <<>>
    /\ final_lines = <<>>
    /\ optimized_file = Absent
    /\ written = {}
    /\ opt_report = NoReport
    /\ SplitIdle
    /\ ResearchIdle

NextOptimize ==
    \/ OptRead
    \/ OptReadFails
    \/ OptFilter
    \/ OptCollapse
    \/ OptWrite
    \/ OptReport
    \/ OptReportFails

SpecOptimize == InitOptimize /\ [][NextOptimize]_vars

(***************************************************************************)
(* Vocabulary of the optimizer's properties.                               *)
(***************************************************************************)
OptDone == opc = "written"

\* the lines of the optimized output, as a reader of the written file sees them
OutLines == ReadLines(optimized_file)

IsContentLine(line) == ~IsBlank(line) /\ ~IsPureComment(line)

\* the source lines that are neither blank nor pure comments, in order
InContent == SelectSeq(lines, IsContentLine)

\* the non-blank lines of the output, in order
OutContent == SelectSeq(OutLines, LAMBDA l : ~IsBlank(l))

HasTerminator(line) == line # <<>> /\ line[Len(line)] = "\n"

Body(line) == IF HasTerminator(line) THEN SubSeq(line, 1, Len(line) - 1) ELSE line

Terminator(line) == IF HasTerminator(line) THEN <<"\n">> ELSE <<>>

IsPrefix(p, s) == Len(p) <= Len(s) /\ SubSeq(s, 1, Len(p)) = p

HasMarker(line) == \E k \in 1..Len(line) : line[k] = "#"

\* 1-based position of the first '#' of a line that has one
FirstMarker(line) ==
    CHOOSE k \in 1..Len(line) :
        line[k] = "#" /\ \A j \in 1..(k - 1) : line[j] # "#"

\* the first '#' of the line is immediately preceded by a space
SpaceBeforeMarker(line) ==
    /\ HasMarker(line)
    /\ FirstMarker(line) > 1
    /\ line[FirstMarker(line) - 1] = " "

\* out is src without a suffix that starts with the whitespace before a
\* '#' preceded by a space; what precedes that suffix is unchanged
TrailingCommentRemoved(src, out) ==
    \E k \in 2..Len(src) :
        /\ src[k] = "#"
        /\ src[k - 1] = " "
        /\ HasTerminator(out)
        /\ IsPrefix(Body(out), src)
        /\ Len(Body(out)) < k
        /\ \A j \in (Len(Body(out)) + 1)..(k - 1) : src[j] \in Whitespace

\* the text before the first '#' without the whitespace that ends it
BeforeMarker(line) ==
    LET k == FirstMarker(line)
        e == CHOOSE n \in 0..(k - 1) :
                 /\ \A j \in (n + 1)..(k - 1) : line[j] \in Whitespace
                 /\ (n > 0 => line[n] \notin Whitespace)
    IN  SubSeq(line, 1, e)

\* the '#' at position k lies between an opening and a closing double quote
InsideQuotes(line, k) ==
    /\ Cardinality({j \in 1..(k - 1) : line[j] = "\""}) % 2 = 1
    /\ \E j \in (k + 1)..Len(line) : line[j] = "\""

RECURSIVE SelectIndices(_, _, _)
SelectIndices(ls, keep, i) ==
    IF i > Len(ls) THEN <<>>
    ELSE (IF i \in keep THEN <<ls[i]>> ELSE <<>>) \o SelectIndices(ls, keep, i + 1)

\* line i is blank and so are the two lines before it
ThirdOfBlankRun(ls, i) ==
    /\ i > 2
    /\ IsBlank(ls[i]) /\ IsBlank(ls[i - 1]) /\ IsBlank(ls[i - 2])

\* every maximal run of blank lines cut down to its first two lines
CapRuns(ls) == SelectIndices(ls, {i \in 1..Len(ls) : ~ThirdOfBlankRun(ls, i)}, 1)

DropComments(ls) == SelectSeq(ls, LAMBDA l : ~IsPureComment(l))

BlankPattern(ls) == [i \in 1..Len(ls) |-> IsBlank(ls[i])]

BlankLinesOf(ls) == [i \in 1..Len(ls) |-> IF IsBlank(ls[i]) THEN ls[i] ELSE <<>>]

NumComments(ls) == Cardinality({i \in 1..Len(ls) : IsPureComment(ls[i])})

(***************************************************************************)
(* Properties of optimize_template.                                        *)
(***************************************************************************)
\* C1: every source line that is neither blank nor a pure comment is in the
\* output, in its place among such lines, either unchanged or without a
\* trailing " #comment" suffix (with the whitespace before it) and nothing else.
ContentPreserved ==
    OptDone =>
        /\ Len(OutContent) = Len(InContent)
        /\ \A i \in 1..Len(InContent) :
               \/ OutContent[i] = InContent[i]
               \/ TrailingCommentRemoved(InContent[i], OutContent[i])

ContentPreservedWitness ==
    /\ OptDone
    /\ \E i \in 1..Len(InContent) :
           /\ i <= Len(OutContent)
           /\ OutContent[i] # InContent[i]
           /\ \E j \in 1..Len(InContent[i]) : InContent[i][j] = "\t"
    /\ \E i \in 1..Len(InContent) : i <= Len(OutContent) /\ OutContent[i] = InContent[i]

\* C2: a non-comment line all of whose '#' markers lie inside a quoted value
\* is emitted unmodified.
QuotedMarkerUnmodified ==
    OptDone =>
        \A i \in 1..Len(InContent) :
            ( /\ HasMarker(InContent[i])
              /\ \A k \in 1..Len(InContent[i]) :
                     InContent[i][k] = "#" => InsideQuotes(InContent[i], k) )
            => (i <= Len(OutContent) /\ OutContent[i] = InContent[i])

\* C3: optimizing the optimized output again changes nothing.
OptimizeIdempotent ==
    OptDone => Optimize(optimized_file) = optimized_file

OptimizeIdempotentWitness ==
    /\ OptDone
    /\ optimized_file # template
    /\ Len(OutLines) >= 2
    /\ \E i \in 1..Len(InContent) : SpaceBeforeMarker(InContent[i])

\* C4: the lines with non-comment, non-blank content are never deleted: the
\* non-blank output lines are as many as those source lines and each one
\* starts like the source line in the same place.
ContentLinesKept ==
    OptDone =>
        /\ Len(OutContent) = Len(InContent)
        /\ \A i \in 1..Len(InContent) :
               /\ Body(OutContent[i]) # <<>>
               /\ IsPrefix(Body(OutContent[i]), InContent[i])

ContentLinesKeptWitness ==
    /\ OptDone
    /\ Len(InContent) >= 2
    /\ Len(OutContent) = Len(InContent)
    /\ InContent[1] # InContent[2]
    /\ HasMarker(InContent[1])
    /\ NumComments(lines) >= 1

\* C5: the output has no three consecutive blank lines.
BlankRunBound ==
    OptDone => \A i \in 1..Len(OutLines) : ~ThirdOfBlankRun(OutLines, i)

BlankRunBoundWitness ==
    /\ OptDone
    /\ \E i \in 2..(Len(lines) - 1) :
           /\ IsPureComment(lines[i])
           /\ IsBlank(lines[i - 1])
           /\ IsBlank(lines[i + 1])
    /\ Cardinality({i \in 1..Len(lines) : IsBlank(lines[i])}) > 2
    /\ Cardinality({i \in 1..Len(OutLines) : IsBlank(OutLines[i])}) = 2

\* C6 as stated: the blank runs of the source are capped at two one by one,
\* so the output has the blank lines of the source with every source run cut
\* to two and the comment lines taken out.
BlankRunsOfSourceCapped ==
    OptDone => BlankPattern(OutLines) = BlankPattern(DropComments(CapRuns(lines)))

\* C6 as amended: the runs that are capped are those of the document left
\* after its pure comment lines were removed: a run of more than two becomes
\* its first two lines, a run of one or two is unchanged.
BlankRunsCappedAfterComments ==
    OptDone =>
        /\ BlankPattern(OutLines) = BlankPattern(CapRuns(DropComments(lines)))
        /\ BlankLinesOf(OutLines) = BlankLinesOf(CapRuns(DropComments(lines)))

BlankRunsCappedWitness ==
    /\ OptDone
    /\ \E i \in 1..Len(lines) : ThirdOfBlankRun(lines, i)
    /\ \E i \in 1..Len(OutLines) :
           /\ IsBlank(OutLines[i])
           /\ (i > 1 => ~IsBlank(OutLines[i - 1]))
           /\ (i < Len(OutLines) => ~IsBlank(OutLines[i + 1]))
    /\ Len(InContent) >= 1

\* C7 as stated: a non-comment line whose first '#' follows a space becomes
\* the text before the marker, without the whitespace before the marker,
\* followed by the line's own terminator.
TrailingCommentStrippedKeepingTerminator ==
    OptDone =>
        \A i \in 1..Len(InContent) :
            SpaceBeforeMarker(InContent[i]) =>
                /\ i <= Len(OutContent)
                /\ OutContent[i] = BeforeMarker(InContent[i]) \o Terminator(InContent[i])

\* C7 as amended: such a line becomes the text before the marker, without the
\* whitespace before the marker, followed by a line terminator, which is
\* added when the line had none.
TrailingCommentStripped ==
    OptDone =>
        \A i \in 1..Len(InContent) :
            SpaceBeforeMarker(InContent[i]) =>
                /\ i <= Len(OutContent)
                /\ OutContent[i] = BeforeMarker(InContent[i]) \o <<"\n">>

TrailingCommentStrippedWitness ==
    /\ OptDone
    /\ template = TrailingNoteLine
    /\ optimized_file = <<"k", "e", "y", ":", " ", "v", "a", "l", "u", "e", "\n">>

\* C8: a non-comment line whose first '#' does not follow a space is emitted
\* byte-identical, whatever follows that marker.
UnmatchedMarkerLineUnchanged ==
    OptDone =>
        \A i \in 1..Len(InContent) :
            (HasMarker(InContent[i]) /\ ~SpaceBeforeMarker(InContent[i])) =>
                (i <= Len(OutContent) /\ OutContent[i] = InContent[i])

UnmatchedMarkerLineUnchangedWitness ==
    /\ OptDone
    /\ \E i \in 1..Len(InContent) :
           /\ HasMarker(InContent[i])
           /\ InContent[i][FirstMarker(InContent[i]) - 1] = "\t"
           /\ \E k \in (FirstMarker(InContent[i]) + 1)..Len(InContent[i]) :
                  InContent[i][k] = "#" /\ InContent[i][k - 1] = " "
           /\ OutContent[i] = InContent[i]

AccountSettingsMarker == <<"# ====\n  # API Gateway Account Settings">>

ServiceBoundariesMarker == <<"# ====\n  # API Gateway for Service Boundaries">>

EventBridgeMarker == <<"# ====\n  # Enhanced EventBridge for Event-Driven Architecture">>

SecretsManagerMarker == <<"# ====\n  # AWS Secrets Manager for OAuth Credentials">>

CloudWatchMarker == <<"# ====\n  # CloudWatch Monitoring">>

OutputsMarker == <<"Outputs:">>

ResourcesMarker == <<"Resources:">>

\* the dictionary sections, in insertion order
sections ==
    << [filename    |-> <<"core-infrastructure", ".yaml">>,
        start       |-> AccountSettingsMarker,
        end         |-> ServiceBoundariesMarker,
        description |-> "Core Infrastructure - Cognito, DynamoDB, S3, IAM"],
       [filename    |-> <<"api-gateway", ".yaml">>,
        start       |-> ServiceBoundariesMarker,
        end         |-> EventBridgeMarker,
        description |-> "API Gateway Services and Resources"],
       [filename    |-> <<"event-driven", ".yaml">>,
        start       |-> EventBridgeMarker,
        end         |-> SecretsManagerMarker,
        description |-> "Event-Driven Architecture - EventBridge, SQS, Lambda"],
       [filename    |-> <<"secrets-integrations", ".yaml">>,
        start       |-> SecretsManagerMarker,
        end         |-> CloudWatchMarker,
        description |-> "Secrets Manager and Integration Services"],
       [filename    |-> <<"monitoring", ".yaml">>,
        start       |-> CloudWatchMarker,
        end         |-> OutputsMarker,
        description |-> "CloudWatch Monitoring and Alarms"] >>

Symbols ==
    { AccountSettingsMarker[1], ServiceBoundariesMarker[1], EventBridgeMarker[1],
      SecretsManagerMarker[1], CloudWatchMarker[1], OutputsMarker[1],
      ResourcesMarker[1], "x" }

SplitDocs == UNION {[1..k -> Symbols] : k \in 0..MaxDocLen}

\* the symbol that stands for the text of sym without its last character
CutLast(sym) ==
    CASE sym = AccountSettingsMarker[1]   -> "# ====\n  # API Gateway Account Setting"
      [] sym = ServiceBoundariesMarker[1] -> "# ====\n  # API Gateway for Service Boundarie"
      [] sym = EventBridgeMarker[1]       -> "# ====\n  # Enhanced EventBridge for Event-Driven Architectur"
      [] sym = SecretsManagerMarker[1]    -> "# ====\n  # AWS Secrets Manager for OAuth Credential"
      [] sym = CloudWatchMarker[1]        -> "# ====\n  # CloudWatch Monitorin"
      [] sym = OutputsMarker[1]           -> "Outputs"
      [] sym = ResourcesMarker[1]         -> "Resources"
      [] OTHER                            -> "x without its line end"

\* content[start_pos:end_pos] for a start_pos at which a symbol begins: an
\* end_pos of -1 is the offset of the last character of the document, inside
\* the last symbol
SectionContent(doc, sp, ep) ==
    IF ep = -1
    THEN IF sp >= 0 /\ sp < Len(doc)
         THEN SubSeq(doc, sp + 1, Len(doc) - 1) \o <<CutLast(doc[Len(doc)])>>
         ELSE <<>>
    ELSE PySlice(doc, sp, ep)

\* documents with every marker, in the order of sections
OrderedDoc ==
    ResourcesMarker \o AccountSettingsMarker \o ServiceBoundariesMarker
        \o EventBridgeMarker \o SecretsManagerMarker \o CloudWatchMarker
        \o OutputsMarker

ScenarioDocs ==
    { OrderedDoc,
      OrderedDoc \o <<"x">>,
      ResourcesMarker \o <<"x">> \o AccountSettingsMarker \o <<"x">>
          \o ServiceBoundariesMarker \o EventBridgeMarker \o <<"x">>
          \o SecretsManagerMarker \o CloudWatchMarker \o <<"x">> \o OutputsMarker \o <<"x">>,
      ResourcesMarker \o AccountSettingsMarker \o <<"x">> \o OutputsMarker
          \o <<"x">> \o OutputsMarker \o <<"x">>,
      ResourcesMarker \o CloudWatchMarker \o <<"x">> \o OutputsMarker
          \o <<"x">> \o OutputsMarker \o <<"x">> }

SourceDocs == SplitDocs \cup ScenarioDocs

(***************************************************************************)
(* The characters of a document: every symbol stands for its literal, "x"  *)
(* for a line of other text.                                               *)
(***************************************************************************)
\* '# ==========================================\n  # ', the text all section
\* markers start with
MarkerRule == <<"#", " ">> \o [i \in 1..42 |-> "="] \o <<"\n", " ", " ", "#", " ">>

AccountSettingsTitle ==
    <<"A", "P", "I", " ", "G", "a", "t", "e", "w", "a", "y", " ", "A", "c",
      "c", "o", "u", "n", "t", " ", "S", "e", "t", "t", "i", "n", "g", "s">>

ServiceBoundariesTitle ==
    <<"A", "P", "I", " ", "G", "a", "t", "e", "w", "a", "y", " ", "f", "o",
      "r", " ", "S", "e", "r", "v", "i", "c", "e", " ", "B", "o", "u", "n",
      "d", "a", "r", "i", "e", "s">>

EventBridgeTitle ==
    <<"E", "n", "h", "a", "n", "c", "e", "d", " ", "E", "v", "e", "n", "t",
      "B", "r", "i", "d", "g", "e", " ", "f", "o", "r", " ", "E", "v", "e",
      "n", "t", "-", "D", "r", "i", "v", "e", "n", " ", "A", "r", "c", "h",
      "i", "t", "e", "c", "t", "u", "r", "e">>

SecretsManagerTitle ==
    <<"A", "W", "S", " ", "S", "e", "c", "r", "e", "t", "s", " ", "M", "a",
      "n", "a", "g", "e", "r", " ", "f", "o", "r", " ", "O", "A", "u", "t",
      "h", " ", "C", "r", "e", "d", "e", "n", "t", "i", "a", "l", "s">>

CloudWatchTitle ==
    <<"C", "l", "o", "u", "d", "W", "a", "t", "c", "h", " ", "M", "o", "n",
      "i", "t", "o", "r", "i", "n", "g">>

OutputsText ==
    <<"O", "u", "t", "p", "u", "t", "s", ":">>

ResourcesText ==
    <<"R", "e", "s", "o", "u", "r", "c", "e", "s", ":">>

SymbolText(sym) ==
    CASE sym = AccountSettingsMarker[1]   -> MarkerRule \o AccountSettingsTitle
      [] sym = ServiceBoundariesMarker[1] -> MarkerRule \o ServiceBoundariesTitle
      [] sym = EventBridgeMarker[1]       -> MarkerRule \o EventBridgeTitle
      [] sym = SecretsManagerMarker[1]    -> MarkerRule \o SecretsManagerTitle
      [] sym = CloudWatchMarker[1]        -> MarkerRule \o CloudWatchTitle
      [] sym = OutputsMarker[1]           -> OutputsText
      [] sym = ResourcesMarker[1]         -> ResourcesText
      [] OTHER                            -> <<"x", "\n">>

RECURSIVE TextOf(_)
TextOf(doc) == IF doc = <<>> THEN <<>> ELSE SymbolText(Head(doc)) \o TextOf(Tail(doc))

SetMin(S) == CHOOSE i \in S : \A j \in S : i <= j

SetMax(S) == CHOOSE i \in S : \A j \in S : i >= j

\* re.sub(r'#[^\n]*\n', '', s), from position from on
RECURSIVE SubComments(_, _)
SubComments(s, from) ==
    LET hs == {i \in from..Len(s) : s[i] = "#"}
    IN  IF hs = {} THEN SubSeq(s, from, Len(s))
        ELSE LET h  == SetMin(hs)
                 ns == {i \in h..Len(s) : s[i] = "\n"}
             IN  IF ns = {} THEN SubSeq(s, from, Len(s))
                 ELSE SubSeq(s, from, h - 1) \o SubComments(s, SetMin(ns) + 1)

\* s[p..q] is a match of \n\s*\n
BlankMatch(s, p, q) ==
    /\ p < q
    /\ s[p] = "\n"
    /\ s[q] = "\n"
    /\ \A j \in p..q : s[j] \in Whitespace

\* re.sub(r'\n\s*\n', '\n', s), from position from on
RECURSIVE SubBlankLines(_, _)
SubBlankLines(s, from) ==
    LET ps == {p \in from..Len(s) : \E q \in (p + 1)..Len(s) : BlankMatch(s, p, q)}
    IN  IF ps = {} THEN SubSeq(s, from, Len(s))
        ELSE LET p == SetMin(ps)
                 q == SetMax({j \in (p + 1)..Len(s) : BlankMatch(s, p, j)})
             IN  SubSeq(s, from, p) \o SubBlankLines(s, q + 1)

DividerMin == 40

\* s[i..e] is a match of '  # ={40,}'
DividerMatch(s, i, e) ==
    /\ e <= Len(s)
    /\ e >= i + 3 + DividerMin
    /\ s[i] = " " /\ s[i + 1] = " " /\ s[i + 2] = "#" /\ s[i + 3] = " "
    /\ \A k \in (i + 4)..e : s[k] = "="

\* re.sub(r'  # ={40,}', '', s), from position from on
RECURSIVE SubDividers(_, _)
SubDividers(s, from) ==
    LET is == {i \in from..Len(s) : DividerMatch(s, i, i + 3 + DividerMin)}
    IN  IF is = {} THEN SubSeq(s, from, Len(s))
        ELSE LET i == SetMin(is)
                 e == SetMax({j \in (i + 3 + DividerMin)..Len(s) : DividerMatch(s, i, j)})
             IN  SubSeq(s, from, i - 1) \o SubDividers(s, e + 1)

\* optimized_content
OptimizedContent(text) == SubDividers(SubBlankLines(SubComments(text, 1), 1), 1)

\* len(s.splitlines())
NumSplitLines(s) ==
    Cardinality({i \in 1..Len(s) : s[i] = "\n"})
        + (IF s # <<>> /\ s[Len(s)] # "\n" THEN 1 ELSE 0)

\* the paths printed under "Files created:"
FilesCreated ==
    { <<"template-optimized.yaml">>,
      <<"template-backup.yaml">>,
      <<"infrastructure/cloudformation/split">> }

\* the figures of "Optimization Results" and the list of "Files created"
SplitFigures(text, optimized_content) ==
    LET original_size   == Len(text)
        optimized_size  == Len(optimized_content)
        original_lines  == NumSplitLines(text)
        optimized_count == NumSplitLines(optimized_content)
    IN  [printed         |-> TRUE,
         original_size   |-> original_size,
         optimized_size  |-> optimized_size,
         reduction       |-> PercentTenths(original_size, optimized_size),
         original_lines  |-> original_lines,
         optimized_lines |-> optimized_count,
         line_reduction  |-> PercentTenths(original_lines, optimized_count),
         files_created   |-> FilesCreated]

(***************************************************************************)
(* split_template as a state machine.                                      *)
(***************************************************************************)
\* the start offset looked up with the section's end marker
SectionStartOfEnd(doc, section_info) == PyFind(doc, section_info.end)

\* start_pos = content.find(section_info['start'])
SectionStart(doc, section_info) == PyFind(doc, section_info.start)

\* the end offset with the fallback searched from the front of the document
SectionEndFirstOutputs(doc, section_info) ==
    LET e == PyFind(doc, section_info.end)
    IN  IF e = -1 THEN PyFind(doc, OutputsMarker) ELSE e

\* end_pos = content.find(section_info['end']), content.rfind('Outputs:') when -1
SectionEnd(doc, section_info) ==
    LET e == PyFind(doc, section_info.end)
    IN  IF e = -1 THEN PyRFind(doc, OutputsMarker) ELSE e

\* filename.replace('.yaml', '')
StackStem(filename) == SelectSeq(filename, LAMBDA part : part # ".yaml")

\* the fixed texts of template_content
PreambleHead ==
    "AWSTemplateFormatVersion: \"2010-09-09\"\nTransform: AWS::Serverless-2016-10-31\nDescription: Bayon CoAgent - "

PreambleBody == "\n\nParameters: ...\n\nConditions: ...\n\nGlobals: ...\n\n"

ResourcesLine == "Resources:\n"

TrailerHead ==
    "\n\n# Minimal outputs for this section\nOutputs:\n  StackName: ...\n    Export:\n      Name: !Sub ${Environment}-"

TrailerTail == "-StackName\n"

\* template_content with the export name taken from the first section
TemplateContentFirstName(section_info, section_content) ==
    <<PreambleHead, section_info.description, PreambleBody, ResourcesLine>>
        \o section_content
        \o <<TrailerHead>> \o StackStem(sections[1].filename) \o <<TrailerTail>>

\* template_content: the f-string with its three interpolated values
TemplateContent(section_info, section_content) ==
    <<PreambleHead, section_info.description, PreambleBody, ResourcesLine>>
        \o section_content
        \o <<TrailerHead>> \o StackStem(section_info.filename) \o <<TrailerTail>>

\* output_dir
SplitOutputDir == <<"infrastructure/cloudformation/split">>

\* output_dir / filename
OutputPath(filename) == SplitOutputDir \o filename

\* the path of the reduced version split_template writes
SplitOptimizedPath == <<"template-optimized.yaml">>

\* open(output_path, 'a'): the text is added to what the file holds
OpenA(old, text) == old \o text

\* open(output_path, 'w'): the text replaces what the file holds
OpenW(old, text) == text

FileText(filename) ==
    IF filename \in DOMAIN split_files THEN split_files[filename] ELSE <<>>

\* open('template.yaml'), f.read(), output_dir.mkdir(parents=True, exist_ok=True)
SplitRead ==
    /\ spc = "start"
    /\ template # Absent
    /\ content' = template
    /\ written' = written \cup {[tool |-> "split", path |-> SplitOutputDir]}
    /\ spc' = "sections"
    /\ UNCHANGED <<section_idx, start_pos, end_pos, split_files, warnings,
                   split_report, runs, first_files>>
    /\ UNCHANGED <<template, optimized_file>>
    /\ UNCHANGED optVars
    /\ UNCHANGED researchVars

\* open('template.yaml', 'r') raises FileNotFoundError
SplitReadFails ==
    /\ spc = "start"
    /\ template = Absent
    /\ spc' = "failed"
    /\ UNCHANGED <<content, section_idx, start_pos, end_pos, split_files, warnings,
                   split_report, runs, first_files>>
    /\ UNCHANGED fileVars
    /\ UNCHANGED optVars
    /\ UNCHANGED researchVars

\* one iteration of the loop that ends in the warning and continue
SplitSkipSection ==
    /\ spc = "sections"
    /\ section_idx <= Len(sections)
    /\ LET section_info == sections[section_idx]
       IN  /\ SectionStart(content, section_info) = -1
           /\ start_pos' = -1
           /\ end_pos' = PyFind(content, section_info.end)
           /\ warnings' = warnings \cup {section_info.filename}
    /\ section_idx' = section_idx + 1
    /\ UNCHANGED <<content, spc, split_files, split_report, runs, first_files>>
    /\ UNCHANGED fileVars
    /\ UNCHANGED optVars
    /\ UNCHANGED researchVars

\* one iteration of the loop that writes the section's file
SplitWriteSection ==
    /\ spc = "sections"
    /\ section_idx <= Len(sections)
    /\ LET section_info == sections[section_idx]
           sp == SectionStart(content, section_info)
           ep == SectionEnd(content, section_info)
       IN  /\ sp # -1
           /\ start_pos' = sp
           /\ end_pos' = ep
           /\ split_files' =
                  (section_info.filename :>
                       OpenW(FileText(section_info.filename),
                             TemplateContent(section_info, SectionContent(content, sp, ep))))
                  @@ split_files
           /\ written' = written \cup
                  {[tool |-> "split", path |-> OutputPath(section_info.filename)]}
    /\ section_idx' = section_idx + 1
    /\ UNCHANGED <<content, spc, warnings, split_report, runs, first_files>>
    /\ UNCHANGED <<template, optimized_file>>
    /\ UNCHANGED optVars
    /\ UNCHANGED researchVars

\* with open('template-optimized.yaml', 'w') as f: f.write(optimized_content)
SplitWriteOptimized ==
    /\ spc = "sections"
    /\ section_idx > Len(sections)
    /\ CwdWrite("split", SplitOptimizedPath, OptimizedContent(TextOf(content)))
    /\ spc' = "optimized"
    /\ UNCHANGED <<content, section_idx, start_pos, end_pos, split_files, warnings,
                   split_report, runs, first_files>>
    /\ UNCHANGED optVars
    /\ UNCHANGED researchVars

\* the figures are computed and printed, and the function returns
SplitReport ==
    /\ spc = "optimized"
    /\ content # <<>>
    /\ split_report' = SplitFigures(TextOf(content), optimized_file)
    /\ spc' = "done"
    /\ UNCHANGED <<content, section_idx, start_pos, end_pos, split_files, warnings,
                   runs, first_files>>
    /\ UNCHANGED fileVars
    /\ UNCHANGED optVars
    /\ UNCHANGED researchVars

\* original_size is 0: the division for reduction raises ZeroDivisionError
SplitReportFails ==
    /\ spc = "optimized"
    /\ content = <<>>
    /\ spc' = "failed"
    /\ UNCHANGED <<content, section_idx, start_pos, end_pos, split_files, warnings,
                   split_report, runs, first_files>>
    /\ UNCHANGED fileVars
    /\ UNCHANGED optVars
    /\ UNCHANGED researchVars

\* the script is started again on the same working directory
SplitRerun ==
    /\ spc = "done"
    /\ runs < MaxRuns
    /\ runs' = runs + 1
    /\ first_files' = IF runs = 1 THEN split_files ELSE first_files
    /\ spc' = "start"
    /\ content' = <<>>
    /\ section_idx' = 1
    /\ start_pos' = -1
    /\ end_pos' = -1
    /\ warnings' = {}
    /\ split_report' = NoReport
    /\ UNCHANGED split_files
    /\ UNCHANGED fileVars
    /\ UNCHANGED optVars
    /\ UNCHANGED researchVars

OptIdle ==
    /\ opc = "idle"
    /\ lines = <<>>
    /\ optimized_lines = <<>>
    /\ final_lines = <<>>
    /\ opt_report = NoReport

InitSplit ==
    /\ template \in SourceDocs \cup {Absent}
    /\ optimized_file = Absent
    /\ written = {}
    /\ content = <<>>
    /\ spc = "start"
    /\ section_idx = 1
    /\ start_pos = -1
    /\ end_pos = -1
    /\ split_files = <<>>
    /\ warnings = {}
    /\ split_report = NoReport
    /\ runs = 1
    /\ first_files = <<>>
    /\ OptIdle
    /\ ResearchIdle

NextSplit ==
    \/ SplitRead
    \/ SplitReadFails
    \/ SplitSkipSection
    \/ SplitWriteSection
    \/ SplitWriteOptimized
    \/ SplitReport
    \/ SplitReportFails
    \/ SplitRerun

SpecSplit == InitSplit /\ [][NextSplit]_vars

\* both tools, each started on a working directory of its own
InitTools == InitOptimize \/ InitSplit

NextTools == NextOptimize \/ NextSplit

SpecTools == InitTools /\ [][NextTools]_vars

\* section_content as it stands in a written file
SegmentOf(file) == SubSeq(file, 5, Len(file) - 3)

(***************************************************************************)
(* Properties of split_template.                                           *)
(***************************************************************************)
\* the section examined by the last iteration of the loop
LastSection == sections[section_idx - 1]

SectionWritten ==
    /\ spc = "sections"
    /\ section_idx > 1
    /\ start_pos # -1

\* the offsets after start_pos at which the last section's end marker occurs
EndsAfterStart == {i \in Occurrences(content, LastSection.end) : i > start_pos}

\* C10: when the end marker of a written section occurs after the section's
\* start, the end offset is the first such occurrence, so the segment runs
\* forward from the start marker up to it.
EndIsFirstAfterStart ==
    (SectionWritten /\ EndsAfterStart # {}) =>
        /\ end_pos \in EndsAfterStart
        /\ \A i \in EndsAfterStart : end_pos <= i
        /\ SegmentOf(split_files[LastSection.filename])
               = SubSeq(content, start_pos + 1, end_pos)

\* the offsets at which the literal "Outputs:" occurs in the document
OutputsAt == Occurrences(content, OutputsMarker)

\* the text of the document from offset a up to, not including, offset b
Between(a, b) == [i \in 1..(b - a) |-> content[a + i]]

\* C11: the monitoring section, whose end marker is "Outputs:", ends at the
\* rightmost "Outputs:" of the document, not at an earlier occurrence.
TrailingSectionEndsAtLastOutputs ==
    ( /\ SectionWritten
      /\ section_idx - 1 = Len(sections)
      /\ OutputsAt # {}
      /\ SetMax(OutputsAt) > start_pos )
    => /\ end_pos = SetMax(OutputsAt)
       /\ SegmentOf(split_files[LastSection.filename])
              = Between(start_pos, SetMax(OutputsAt))

MarkersInOrder ==
    LET ms == <<ResourcesMarker>> \o [k \in 1..Len(sections) |-> sections[k].start]
                  \o <<OutputsMarker>>
    IN  /\ \A k \in 1..Len(ms) : Cardinality(Occurrences(content, ms[k])) = 1
        /\ \A k \in 1..(Len(ms) - 1) : PyFind(content, ms[k]) < PyFind(content, ms[k + 1])

LoopDone == spc = "sections" /\ section_idx > Len(sections)

RECURSIVE SegmentsUpTo(_)
SegmentsUpTo(k) ==
    IF k = 0 THEN <<>>
    ELSE SegmentsUpTo(k - 1) \o SegmentOf(split_files[sections[k].filename])

\* C13: for a document with every marker once and in order, the segments of
\* all sections, concatenated, are the text between the "Resources:" marker
\* and the "Outputs:" marker.
SplitComplete ==
    (LoopDone /\ MarkersInOrder) =>
        /\ \A k \in 1..Len(sections) : sections[k].filename \in DOMAIN split_files
        /\ SegmentsUpTo(Len(sections))
               = Between(PyFind(content, ResourcesMarker) + 1, PyFind(content, OutputsMarker))

\* C14: the sections examined so far have a file exactly when their start
\* marker occurs in the document and a warning exactly when it does not, and
\* the files are at the paths made of the section names.
MissingMarkerResilience ==
    (spc \in {"sections", "optimized", "done"}) =>
        /\ \A k \in 1..(section_idx - 1) :
               LET occurs == Occurrences(content, sections[k].start) # {}
               IN  /\ (sections[k].filename \in DOMAIN split_files) <=> occurs
                   /\ (sections[k].filename \in warnings) <=> ~occurs
                   /\ ([tool |-> "split", path |-> SplitOutputDir \o sections[k].filename]
                           \in written) <=> occurs
        /\ (spc # "sections" => section_idx = Len(sections) + 1)

MissingMarkerResilienceWitness ==
    /\ spc = "done"
    /\ runs = 1
    /\ \E j, k \in 1..Len(sections) :
           /\ j < k
           /\ sections[j].filename \in warnings
           /\ sections[k].filename \in DOMAIN split_files
    /\ \E j, k \in 1..Len(sections) :
           /\ j < k
           /\ sections[k].filename \in warnings
           /\ sections[j].filename \in DOMAIN split_files

\* C15: every file written is the preamble, the "Resources:" line, the
\* segment as extracted and the Outputs trailer, in this order, and the export
\* name of the trailer is the section's own name and no other section's.
SplitFileShape ==
    \A k \in 1..Len(sections) :
        sections[k].filename \in DOMAIN split_files =>
            LET file == split_files[sections[k].filename]
                n    == Len(file)
            IN  /\ n >= 7
                /\ file[1] = PreambleHead
                /\ file[2] = sections[k].description
                /\ file[3] = PreambleBody
                /\ file[4] = ResourcesLine
                /\ file[n - 2] = TrailerHead
                /\ file[n] = TrailerTail
                /\ <<file[n - 1], ".yaml">> = sections[k].filename
                /\ \A j \in 1..Len(sections) :
                       j # k => file[n - 1] # sections[j].filename[1]
                /\ (SectionWritten /\ k = section_idx - 1) =>
                       SegmentOf(file) = SectionContent(content, start_pos, end_pos)

SplitFileShapeWitness ==
    /\ LoopDone
    /\ Cardinality(DOMAIN split_files) >= 2
    /\ \A f \in DOMAIN split_files : Len(SegmentOf(split_files[f])) >= 2
    /\ sections[1].filename \notin DOMAIN split_files

\* C16: a run that ended with a fatal error has created or written nothing.
FatalLeavesNoOutput ==
    (opc = "failed" \/ spc = "failed") => written = {}

\* C17: no path written by split_template is a path optimize_template writes.
SplitPathsApartFromOptimizer ==
    \A w \in written : w.tool = "split" => w.path # OptOutputPath

\* C18: no step of either tool changes 'template.yaml' or writes to its path.
SourceReadOnly ==
    [][ /\ template' = template
        /\ \A w \in written' : w.path # SourcePath ]_vars

SourceReadOnlyWitness ==
    /\ opc = "done"
    /\ template # <<>>
    /\ optimized_file # Absent
    /\ optimized_file # template
    /\ [tool |-> "optimize", path |-> <<"template-optimized.yaml">>] \in written

\* C19: a second run on the same document leaves every split file with the
\* content the first run gave it, and no other file.
SplitDeterministic ==
    (spc = "done" /\ runs > 1) => split_files = first_files

SplitDeterministicWitness ==
    /\ spc = "done"
    /\ runs > 1
    /\ Cardinality(DOMAIN split_files) >= 2
    /\ warnings # {}

\* p tenths of a percent is (before - after) / before * 100 to one decimal
IsReduction(p, before, after) ==
    LET d == p * before - 1000 * (before - after)
    IN  2 * (IF d < 0 THEN -d ELSE d) <= before

\* C20: the line figure and the size figure of both tools are each
\* (before - after) / before * 100 of their own pair of counts; 100 lines and
\* 4,000 characters reduced to 60 lines and 2,400 characters give 40.0 twice.
MetricsCorrect ==
    /\ opt_report.printed =>
           /\ IsReduction(opt_report.lines_reduction, Len(lines), Len(OutLines))
           /\ IsReduction(opt_report.size_reduction, Len(template), Len(optimized_file))
           /\ ( /\ Len(lines) = 100 /\ Len(OutLines) = 60
                /\ Len(template) = 4000 /\ Len(optimized_file) = 2400 )
              => (opt_report.lines_reduction = 400 /\ opt_report.size_reduction = 400)
    /\ split_report.printed =>
           /\ IsReduction(split_report.reduction,
                          Len(TextOf(content)), Len(optimized_file))
           /\ IsReduction(split_report.line_reduction,
                          NumSplitLines(TextOf(content)), NumSplitLines(optimized_file))

MetricsCorrectWitness ==
    /\ opc = "done"
    /\ opt_report.printed
    /\ opt_report.original_lines = 100
    /\ opt_report.optimized_lines_count = 60
    /\ opt_report.original_size = 4000
    /\ opt_report.optimized_size = 2400
    /\ opt_report.lines_reduction = 400
    /\ opt_report.size_reduction = 400

(***************************************************************************)
(* Long documents, for the figures at the threshold.                       *)
(***************************************************************************)
\* n lines, the first k of them comment lines "#" and the others "a"
LongText(n, k) ==
    [i \in 1..(2 * n) |-> IF i % 2 = 0 THEN "\n" ELSE IF i <= 2 * k THEN "#" ELSE "a"]

\* documents whose optimized output has Threshold lines, or one line less
ThresholdTexts ==
    { LongText(Threshold + 1, 1), LongText(Threshold, 0), LongText(Threshold, 1) }

InitFeasibility ==
    /\ template \in SourceTexts \cup ThresholdTexts \cup {Absent}
    /\ opc = "start"
    /\ lines = <<>>
    /\ optimized_lines = <<>>
    /\ final_lines = <<>>
    /\ optimized_file = Absent
    /\ written = {}
    /\ opt_report = NoReport
    /\ SplitIdle
    /\ ResearchIdle

SpecFeasibility == InitFeasibility /\ [][NextOptimize]_vars

\* C23: optimize_template returns true exactly when the optimized output
\* has fewer than 5500 lines, false at 5500 lines and above, and the file it
\* wrote is the optimized document whichever value it returns.
FeasibilitySignal ==
    opt_report.printed =>
        /\ opt_report.returns <=> Len(OutLines) < 5500
        /\ optimized_file = Optimize(template)
        /\ optimized_file = WriteLines(final_lines)

FeasibilitySignalWitness ==
    /\ opt_report.printed
    /\ Len(lines) = 5501
    /\ Len(OutLines) = 5500
    /\ ~opt_report.returns
    /\ optimized_file # Absent

\* C24: when split_template has completed, every path it printed under
\* "Files created" was created or written by split_template.
ListedFilesCreated ==
    spc = "done" =>
        \A path \in split_report.files_created :
            [tool |-> "split", path |-> path] \in written

\* C25: the body of a written section is a contiguous part of the document
\* that begins with the section's start marker and ends just before an
\* offset at which the section's end marker or "Outputs:" begins.
BodyFromStartToEndMarker ==
    SectionWritten =>
        LET body == SegmentOf(split_files[LastSection.filename])
        IN  /\ body # <<>>
            /\ body[1] = LastSection.start[1]
            /\ \E b \in (start_pos + 1)..(Len(content) - 1) :
                   /\ body = Between(start_pos, b)
                   /\ content[b + 1] \in {LastSection.end[1], OutputsMarker[1]}

\* C26: the optimized output has at most as many lines and at most as many
\* characters as the source, so neither printed reduction is negative, also
\* when the last line carries a trailing comment and no line terminator.
NeverEnlarges ==
    /\ opc \in {"written", "done"} =>
           /\ Len(OutLines) <= Len(lines)
           /\ Len(optimized_file) <= Len(template)
    /\ opt_report.printed =>
           (opt_report.lines_reduction >= 0 /\ opt_report.size_reduction >= 0)

NeverEnlargesWitness ==
    /\ opc = "done"
    /\ opt_report.printed
    /\ template[Len(template)] = "#"
    /\ Len(lines) = 2
    /\ HasMarker(lines[2]) /\ ~IsPureComment(lines[2])
    /\ Len(OutLines) = 2
    /\ Len(optimized_file) < Len(template)

\* C27: on a source document that can be read, neither tool ends in an
\* error, whatever the document holds.
CompletesOnReadable ==
    template # Absent => (opc # "failed" /\ spc # "failed")

(***************************************************************************)
(* The research layer: src/services/strands/run-research.py,               *)
(* bayon-research-agent.py, simple-research-agent.py and research-agent.py.*)
(* A Python str is a sequence of non-empty pieces of text; a JSON document *)
(* on input is a sequence of tokens.                                       *)
(***************************************************************************)
MaxCalls == 4

\* Python values
None == [type |-> "NoneType"]

PyStr(v) == [type |-> "str", v |-> v]

PyInt(n) == [type |-> "int", v |-> n]

PyBool(b) == [type |-> "bool", v |-> b]

PyList(items) == [type |-> "list", v |-> items]

\* a dict of string keys, items a function from the keys to their values
PyDict(items) == [type |-> "dict", v |-> items]

\* bool(value)
Truthy(value) ==
    CASE value.type = "NoneType" -> FALSE
      [] value.type = "int"      -> value.v # 0
      [] value.type = "bool"     -> value.v
      [] value.type = "dict"     -> DOMAIN value.v # {}
      [] OTHER                   -> value.v # <<>>

\* tokens of a JSON text
Punct(c) == [tok |-> c]

StrTok(chars) == [tok |-> "string", chars |-> chars]

NumTok(n) == [tok |-> "number", n |-> n]

NullTok == [tok |-> "null"]

IsScalarTok(t) == t.tok \in {"string", "number", "null"}

ScalarOf(t) ==
    CASE t.tok = "string" -> PyStr(t.chars)
      [] t.tok = "number" -> PyInt(t.n)
      [] OTHER            -> None

\* json.loads raised json.JSONDecodeError
JSONDecodeError == [ok |-> FALSE]

Parsed(value) == [ok |-> TRUE, value |-> value]

\* the members of a JSON object: "key": scalar, separated by commas; a
\* repeated key keeps its last value
RECURSIVE ParseMembers(_, _)
ParseMembers(toks, acc) ==
    IF Len(toks) >= 3 /\ toks[1].tok = "string" /\ toks[2] = Punct(":")
          /\ IsScalarTok(toks[3])
    THEN LET items == (toks[1].chars :> ScalarOf(toks[3])) @@ acc
         IN  IF Len(toks) = 3 THEN Parsed(PyDict(items))
             ELSE IF toks[4] = Punct(",") /\ Len(toks) > 4
                  THEN ParseMembers(SubSeq(toks, 5, Len(toks)), items)
                  ELSE JSONDecodeError
    ELSE JSONDecodeError

\* json.loads(text), for scalars, the empty list and objects of scalars
JsonLoads(toks) ==
    IF Len(toks) = 1 /\ IsScalarTok(toks[1]) THEN Parsed(ScalarOf(toks[1]))
    ELSE IF toks = <<Punct("["), Punct("]")>> THEN Parsed(PyList(<<>>))
    ELSE IF Len(toks) >= 2 /\ toks[1] = Punct("{") /\ toks[Len(toks)] = Punct("}")
         THEN IF Len(toks) = 2 THEN Parsed(PyDict(<<>>))
              ELSE ParseMembers(SubSeq(toks, 2, Len(toks) - 1), <<>>)
    ELSE JSONDecodeError

\* is the value one json.dumps can write
RECURSIVE Serializable(_)
Serializable(value) ==
    CASE value.type \in {"NoneType", "str", "int", "bool"} -> TRUE
      [] value.type = "list" -> \A i \in 1..Len(value.v) : Serializable(value.v[i])
      [] value.type = "dict" -> \A k \in DOMAIN value.v : Serializable(value.v[k])
      [] OTHER -> FALSE

\* json.dumps(obj) for a dict given as a record: the document that is printed
JsonDumps(obj) ==
    IF \A k \in DOMAIN obj : Serializable(obj[k])
    THEN [ok |-> TRUE, document |-> [json |-> obj]]
    ELSE [ok |-> FALSE]

(***************************************************************************)
(* Requests.                                                               *)
(***************************************************************************)
TopicKey == <<"t", "o", "p", "i", "c">>

UserIdKey == <<"u", "s", "e", "r", "I", "d">>

\* {"topic": v}
TopicRequest(v) == <<Punct("{"), StrTok(TopicKey), Punct(":"), v, Punct("}")>>

RawInputs ==
    { <<>>,
      <<Punct("{")>>,
      <<Punct("{"), StrTok(TopicKey), Punct(":"), StrTok(<<"a">>), Punct(","), Punct("}")>>,
      <<Punct("{"), Punct("}")>>,
      <<Punct("["), Punct("]")>>,
      <<StrTok(<<"a">>)>>,
      TopicRequest(StrTok(<<>>)),
      TopicRequest(StrTok(<<" ">>)),
      TopicRequest(StrTok(<<"a">>)),
      TopicRequest(StrTok(<<" ", "a", "\t">>)),
      TopicRequest(NullTok),
      TopicRequest(NumTok(0)),
      TopicRequest(NumTok(5)),
      <<Punct("{"), StrTok(TopicKey), Punct(":"), StrTok(<<"a">>), Punct(","),
        StrTok(UserIdKey), Punct(":"), StrTok(<<"u">>), Punct("}")>>,
      <<Punct("{"), StrTok(UserIdKey), Punct(":"), StrTok(<<"u">>), Punct("}")>> }

\* the request as an argument of the command line, or on standard input
Requests ==
    {[argv |-> <<raw>>, stdin |-> <<>>] : raw \in RawInputs}
        \cup {[argv |-> <<>>, stdin |-> raw] : raw \in RawInputs}

\* sys.argv[1] if len(sys.argv) > 1, else sys.stdin.read()
InputText(req) == IF Len(req.argv) > 0 THEN req.argv[1] ELSE req.stdin

(***************************************************************************)
(* main() up to the call of run_research_query.                            *)
(***************************************************************************)
\* input_data.get(key, default)
DictGet(d, key, default) == IF key \in DOMAIN d.v THEN d.v[key] ELSE default

\* the entry points that call .strip() on the topic
StripsTopic(e) == e \in {"bayon-research-agent.py", "simple-research-agent.py"}

\* the message of the topic check
TopicRequired(e) ==
    IF e = "run-research.py" THEN <<"Topic is required">>
    ELSE <<"Research topic is required">>

\* main's error_result
ErrorResult(message) ==
    [success |-> PyBool(FALSE), error |-> PyStr(message), report |-> None, citations |-> PyList(<<>>)]

\* main from json.loads to the topic check: what it does next
MainParse(e, req) ==
    LET loaded == JsonLoads(InputText(req))
    IN  IF ~loaded.ok THEN [outcome |-> "invalid_json"]
        ELSE IF loaded.value.type # "dict" THEN [outcome |-> "raises"]
        ELSE LET got     == DictGet(loaded.value, TopicKey, PyStr(<<>>))
                 user_id == DictGet(loaded.value, UserIdKey, PyStr(<<"unknown">>))
             IN  IF StripsTopic(e) /\ got.type # "str" THEN [outcome |-> "raises"]
                 ELSE LET topic == IF StripsTopic(e) THEN PyStr(Strip(got.v)) ELSE got
                      IN  IF ~Truthy(topic) THEN [outcome |-> "required"]
                          ELSE [outcome |-> "query", topic |-> topic, user_id |-> user_id]

(***************************************************************************)
(* run_research_query.                                                     *)
(***************************************************************************)
UrlMark == "URL: "

Urls == {"https://a", "http://b"}

\* texts an agent may answer with
ResponseTexts ==
    { <<>>,
      <<"report">>,
      <<"report", UrlMark, "https://a">>,
      <<UrlMark, "ftp://x">>,
      <<UrlMark, "https://a", " ", UrlMark, "http://b">> }

\* what agent(research_prompt) returns: a str, or an object whose str() is the text
Responses ==
    {PyStr(text) : text \in ResponseTexts}
        \cup {[type |-> "AgentResult", text |-> text] : text \in ResponseTexts}

\* str(response)
StrOf(response) == IF response.type = "str" THEN response.v ELSE response.text

\* str(e) of the exceptions raised by the agent library
ExcMessages == {<<>>, <<"boom">>}

\* re.findall(r'URL: (https?://[^\s]+)', text)
FindUrls(text) ==
    LET idx == SelectSeq([i \in 1..Len(text) |-> i],
                         LAMBDA i : i > 1 /\ text[i - 1] = UrlMark /\ text[i] \in Urls)
    IN  [k \in 1..Len(idx) |-> text[idx[k]]]

\* "URL:" in text
HasUrlMark(text) == \E i \in 1..Len(text) : text[i] = UrlMark

\* datetime.now().isoformat()
Timestamp == PyStr(<<"now">>)

\* the dict of the except branch, with the report of a success left in it
QueryFailureKeepsReport(e, topic, user_id, message) ==
    IF e = "run-research.py"
    THEN [success |-> PyBool(FALSE), error |-> PyStr(message), report |-> PyStr(<<"report">>),
          citations |-> PyList(<<>>)]
    ELSE [success |-> PyBool(FALSE), error |-> PyStr(message), report |-> PyStr(<<"report">>),
          citations |-> PyList(<<>>), topic |-> topic, timestamp |-> Timestamp,
          user_id |-> user_id, source |-> PyStr(<<"strands-research-agent">>)]

\* the dict returned by the except branch of run_research_query
QueryFailure(e, topic, user_id, message) ==
    IF e = "run-research.py"
    THEN [success |-> PyBool(FALSE), error |-> PyStr(message), report |-> None,
          citations |-> PyList(<<>>)]
    ELSE [success |-> PyBool(FALSE), error |-> PyStr(message), report |-> None,
          citations |-> PyList(<<>>), topic |-> topic, timestamp |-> Timestamp,
          user_id |-> user_id, source |-> PyStr(<<"strands-research-agent">>)]

\* run_research_query once the agent has answered
QueryAnswered(e, topic, user_id, response) ==
    IF e = "run-research.py"
    THEN IF response.type # "str"
         THEN QueryFailure(e, topic, user_id,
                           <<"argument of type '", response.type, "' is not iterable">>)
         ELSE LET urls == IF HasUrlMark(response.v) THEN FindUrls(response.v) ELSE <<>>
              IN  [success |-> PyBool(TRUE), report |-> response,
                   citations |-> PyList([i \in 1..Len(urls) |->
                       PyDict([k \in {"url", "title"} |->
                           IF k = "url" THEN PyStr(<<urls[i]>>)
                           ELSE PyStr(<<"Source ", ToString(i)>>)])]),
                   topic |-> topic, timestamp |-> Timestamp]
    ELSE LET response_str == StrOf(response)
             urls == IF HasUrlMark(response_str) THEN FindUrls(response_str) ELSE <<>>
         IN  [success |-> PyBool(TRUE), report |-> PyStr(response_str),
              citations |-> PyList([i \in 1..Len(urls) |-> PyStr(<<urls[i]>>)]),
              topic |-> topic, timestamp |-> Timestamp,
              user_id |-> user_id, source |-> PyStr(<<"strands-research-agent">>)]

\* get_research_agent() without the test "is None"
GetResearchAgentAlways(handle, made, create_ok) ==
    IF create_ok
    THEN [handle |-> [id |-> made + 1], creations |-> made + 1, raised |-> FALSE]
    ELSE [handle |-> handle, creations |-> made + 1, raised |-> TRUE]

\* get_research_agent(): _research_agent afterwards, the number of creations
\* afterwards, and whether create_enhanced_research_agent raised
GetResearchAgent(handle, made, create_ok) ==
    IF handle = NoAgent
    THEN IF create_ok
         THEN [handle |-> [id |-> made + 1], creations |-> made + 1, raised |-> FALSE]
         ELSE [handle |-> NoAgent, creations |-> made + 1, raised |-> TRUE]
    ELSE [handle |-> handle, creations |-> made, raised |-> FALSE]

(***************************************************************************)
(* The entry points as processes, one per script, given the same request.  *)
(***************************************************************************)
toolVars == <<optVars, splitVars, fileVars>>

\* the process of entry point e moves to position pos
Goto(e, pos) == rpc' = [rpc EXCEPT ![e] = pos]

\* print(json.dumps(obj))
PrintJson(e, obj) == stdout' = [stdout EXCEPT ![e] = Append(@, JsonDumps(obj).document)]

\* sys.exit(status), or the end of the script with status 0
Exit(e, status) ==
    /\ Goto(e, "exited")
    /\ exit_status' = [exit_status EXCEPT ![e] = <<status>>]

\* the imports at the top of the script succeed
Load(e) ==
    /\ rpc[e] = "load"
    /\ Goto(e, "main")
    /\ UNCHANGED <<request, result, stdout, exit_status, query_calls,
                   research_agent, creations, queries>>
    /\ UNCHANGED toolVars

\* an import at the top of the script raises: the traceback goes to standard
\* error and the interpreter exits with status 1
LoadFails(e) ==
    /\ rpc[e] = "load"
    /\ Exit(e, 1)
    /\ UNCHANGED <<request, result, stdout, query_calls, research_agent, creations, queries>>
    /\ UNCHANGED toolVars

\* except json.JSONDecodeError
MainInvalidJson(e) ==
    /\ rpc[e] = "main"
    /\ MainParse(e, request).outcome = "invalid_json"
    /\ PrintJson(e, ErrorResult(<<"Invalid JSON input: ", "Expecting value">>))
    /\ Exit(e, 1)
    /\ UNCHANGED <<request, result, query_calls, research_agent, creations, queries>>
    /\ UNCHANGED toolVars

\* except Exception: input_data.get or .strip() raised AttributeError
MainRaises(e) ==
    /\ rpc[e] = "main"
    /\ MainParse(e, request).outcome = "raises"
    /\ PrintJson(e, ErrorResult(<<"Research execution failed: ", "object has no attribute">>))
    /\ Exit(e, 1)
    /\ UNCHANGED <<request, result, query_calls, research_agent, creations, queries>>
    /\ UNCHANGED toolVars

\* if not topic: result = {...}
MainTopicRequired(e) ==
    /\ rpc[e] = "main"
    /\ MainParse(e, request).outcome = "required"
    /\ result' = [result EXCEPT ![e] = ErrorResult(TopicRequired(e))]
    /\ Goto(e, "emit")
    /\ UNCHANGED <<request, stdout, exit_status, query_calls, research_agent,
                   creations, queries>>
    /\ UNCHANGED toolVars

\* run_research_query: creating the agent raises
QueryCreateFails(e) ==
    /\ rpc[e] = "main"
    /\ MainParse(e, request).outcome = "query"
    /\ \E message \in ExcMessages :
         LET parsed == MainParse(e, request)
         IN  result' = [result EXCEPT ![e] =
                 QueryFailure(e, parsed.topic, parsed.user_id, message)]
    /\ IF e = "run-research.py"
       THEN LET got == GetResearchAgent(research_agent, creations, FALSE)
            IN  /\ got.raised
                /\ research_agent' = got.handle
                /\ creations' = got.creations
       ELSE UNCHANGED <<research_agent, creations>>
    /\ query_calls' = [query_calls EXCEPT ![e] = @ + 1]
    /\ Goto(e, "emit")
    /\ UNCHANGED <<request, stdout, exit_status, queries>>
    /\ UNCHANGED toolVars

\* the agent is obtained as run_research_query of the entry point obtains it
AgentObtained(e) ==
    IF e = "run-research.py"
    THEN LET got == GetResearchAgent(research_agent, creations, TRUE)
         IN  /\ ~got.raised
             /\ research_agent' = got.handle
             /\ creations' = got.creations
    ELSE UNCHANGED <<research_agent, creations>>

\* run_research_query: agent(research_prompt) raises
QueryAgentRaises(e) ==
    /\ rpc[e] = "main"
    /\ MainParse(e, request).outcome = "query"
    /\ AgentObtained(e)
    /\ query_calls' = [query_calls EXCEPT ![e] = @ + 1]
    /\ \E message \in ExcMessages :
         LET parsed == MainParse(e, request)
         IN  result' = [result EXCEPT ![e] =
                 QueryFailure(e, parsed.topic, parsed.user_id, message)]
    /\ Goto(e, "emit")
    /\ UNCHANGED <<request, stdout, exit_status, queries>>
    /\ UNCHANGED toolVars

\* run_research_query: agent(research_prompt) returns
QueryReturns(e) ==
    /\ rpc[e] = "main"
    /\ MainParse(e, request).outcome = "query"
    /\ AgentObtained(e)
    /\ query_calls' = [query_calls EXCEPT ![e] = @ + 1]
    /\ \E response \in Responses :
         LET parsed == MainParse(e, request)
         IN  result' = [result EXCEPT ![e] =
                 QueryAnswered(e, parsed.topic, parsed.user_id, response)]
    /\ Goto(e, "emit")
    /\ UNCHANGED <<request, stdout, exit_status, queries>>
    /\ UNCHANGED toolVars

\* print(json.dumps(result)), and main returns
Emit(e) ==
    /\ rpc[e] = "emit"
    /\ JsonDumps(result[e]).ok
    /\ PrintJson(e, result[e])
    /\ Exit(e, 0)
    /\ UNCHANGED <<request, result, query_calls, research_agent, creations, queries>>
    /\ UNCHANGED toolVars

FilesIdle ==
    /\ template = Absent
    /\ optimized_file = Absent
    /\ written = {}

InitResearch ==
    /\ request \in Requests
    /\ rpc = [e \in EntryPoints |-> "load"]
    /\ result = [e \in EntryPoints |-> NoResult]
    /\ stdout = [e \in EntryPoints |-> <<>>]
    /\ exit_status = [e \in EntryPoints |-> <<>>]
    /\ query_calls = [e \in EntryPoints |-> 0]
    /\ research_agent = NoAgent
    /\ creations = 0
    /\ queries = <<>>
    /\ OptIdle
    /\ SplitIdle
    /\ FilesIdle

NextResearch ==
    \E e \in EntryPoints :
        \/ Load(e)
        \/ LoadFails(e)
        \/ MainInvalidJson(e)
        \/ MainRaises(e)
        \/ MainTopicRequired(e)
        \/ QueryCreateFails(e)
        \/ QueryAgentRaises(e)
        \/ QueryReturns(e)
        \/ Emit(e)

SpecResearch == InitResearch /\ [][NextResearch]_vars

(***************************************************************************)
(* A process that imports research-agent.py and calls run_research_query   *)
(* several times.                                                          *)
(***************************************************************************)
LibTopic == PyStr(<<"a">>)

LibUser == PyStr(<<"u">>)

\* one call of run_research_query: the agent get_research_agent returned
\* (NoAgent when it raised), whether it created one, and the dict returned
QueryRecord(got, res) ==
    [agent |-> IF got.raised THEN NoAgent ELSE got.handle,
     created |-> got.creations # creations,
     succeeded |-> ~got.raised /\ got.creations # creations,
     result |-> res]

\* run_research_query: create_enhanced_research_agent raises
LibQueryCreateFails ==
    /\ Len(queries) < MaxCalls
    /\ LET got == GetResearchAgent(research_agent, creations, FALSE)
       IN  /\ got.raised
           /\ research_agent' = got.handle
           /\ creations' = got.creations
           /\ \E message \in ExcMessages :
                queries' = Append(queries, QueryRecord(got,
                    QueryFailure("run-research.py", LibTopic, LibUser, message)))
    /\ UNCHANGED <<request, rpc, result, stdout, exit_status, query_calls>>
    /\ UNCHANGED toolVars

\* run_research_query: agent(research_prompt) raises
LibQueryAgentRaises ==
    /\ Len(queries) < MaxCalls
    /\ \E create_ok \in BOOLEAN :
         LET got == GetResearchAgent(research_agent, creations, create_ok)
         IN  /\ ~got.raised
             /\ research_agent' = got.handle
             /\ creations' = got.creations
             /\ \E message \in ExcMessages :
                  queries' = Append(queries, QueryRecord(got,
                      QueryFailure("run-research.py", LibTopic, LibUser, message)))
    /\ UNCHANGED <<request, rpc, result, stdout, exit_status, query_calls>>
    /\ UNCHANGED toolVars

\* run_research_query: agent(research_prompt) returns
LibQueryReturns ==
    /\ Len(queries) < MaxCalls
    /\ \E create_ok \in BOOLEAN :
         LET got == GetResearchAgent(research_agent, creations, create_ok)
         IN  /\ ~got.raised
             /\ research_agent' = got.handle
             /\ creations' = got.creations
             /\ \E response \in Responses :
                  queries' = Append(queries, QueryRecord(got,
                      QueryAnswered("run-research.py", LibTopic, LibUser, response)))
    /\ UNCHANGED <<request, rpc, result, stdout, exit_status, query_calls>>
    /\ UNCHANGED toolVars

InitLibrary ==
    /\ ResearchIdle
    /\ OptIdle
    /\ SplitIdle
    /\ FilesIdle

NextLibrary ==
    \/ LibQueryCreateFails
    \/ LibQueryAgentRaises
    \/ LibQueryReturns

SpecLibrary == InitLibrary /\ [][NextLibrary]_vars

(***************************************************************************)
(* Properties of the research layer.                                       *)
(***************************************************************************)
Exited(e) == rpc[e] = "exited"

\* the dicts printed by the process of entry point e
Printed(e) == [i \in 1..Len(stdout[e]) |-> stdout[e][i].json]

\* main got as far as the topic check
Decided(e) == rpc[e] = "emit" \/ (Exited(e) /\ stdout[e] # <<>>)

\* the fields every result carries, and error on a failure
HasResultFields(obj) ==
    /\ {"success", "report", "citations"} \subseteq DOMAIN obj
    /\ obj.success.type = "bool"
    /\ obj.report.type \in {"str", "NoneType"}
    /\ obj.citations.type = "list"
    /\ ~obj.success.v => ("error" \in DOMAIN obj /\ obj.error.type = "str")

\* C21: a process of a research entry point that has ended has printed
\* exactly one JSON object, with the fields success, report and citations,
\* and error when success is false, whatever path it took.
ExactlyOneResult ==
    \A e \in EntryPoints \ {"simple-research-agent.py"} :
        Exited(e) => (Len(stdout[e]) = 1 /\ HasResultFields(Printed(e)[1]))

\* C22: a process that printed success:false printed a non-empty error and
\* ended with a non-zero status; a process that ended with status 0 printed
\* success:true.
FailureExitsNonZero ==
    \A e \in EntryPoints \ {"simple-research-agent.py"} :
        (Exited(e) /\ Len(stdout[e]) = 1) =>
            /\ ~Printed(e)[1].success.v =>
                   (Printed(e)[1].error.v # <<>> /\ exit_status[e] # <<0>>)
            /\ exit_status[e] = <<0>> => Printed(e)[1].success.v

\* the shape of a result dict
ResultShape(obj) ==
    /\ obj.success.v => (obj.report # None /\ "error" \notin DOMAIN obj)
    /\ ~obj.success.v =>
           (obj.report = None /\ obj.citations = PyList(<<>>) /\ "error" \in DOMAIN obj)

\* C28: every dict returned by run_research_query or built by main, and
\* every dict printed, has a report and no error when success is true, and
\* no report, no citations and an error when success is false.
ResultShapeInvariant ==
    \A e \in EntryPoints :
        /\ "success" \in DOMAIN result[e] => ResultShape(result[e])
        /\ \A i \in 1..Len(stdout[e]) : ResultShape(Printed(e)[i])

ResultShapeWitness ==
    /\ Exited("run-research.py") /\ Exited("bayon-research-agent.py")
    /\ query_calls["run-research.py"] = 1 /\ query_calls["bayon-research-agent.py"] = 1
    /\ Len(stdout["run-research.py"]) = 1 /\ Len(stdout["bayon-research-agent.py"]) = 1
    /\ Printed("run-research.py")[1].success.v
    /\ Printed("run-research.py")[1].citations.v # <<>>
    /\ ~Printed("bayon-research-agent.py")[1].success.v
    /\ "topic" \in DOMAIN Printed("bayon-research-agent.py")[1]

\* the request carries no topic, an empty one or one of whitespace only
TopicBlank(req) ==
    LET loaded == JsonLoads(InputText(req))
    IN  /\ loaded.ok
        /\ loaded.value.type = "dict"
        /\ TopicKey \in DOMAIN loaded.value.v =>
               /\ loaded.value.v[TopicKey].type = "str"
               /\ Strip(loaded.value.v[TopicKey].v) = <<>>

\* C29: every entry point answers a request without topic, or with an empty
\* or whitespace-only topic, with success:false and without calling
\* run_research_query; on the same request the entry points agree on
\* whether it is called.
TopicValidationAgrees ==
    /\ \A e \in EntryPoints :
           (Decided(e) /\ TopicBlank(request)) =>
               /\ query_calls[e] = 0
               /\ "success" \in DOMAIN result[e] => ~result[e].success.v
    /\ \A e1, e2 \in EntryPoints :
           (Decided(e1) /\ Decided(e2)) => (query_calls[e1] > 0 <=> query_calls[e2] > 0)

\* C30: once a call has created the agent, no later call creates one and
\* every later call gets that agent; a call in which creation raised leaves
\* _research_agent unset, and the next call creates again.
LazySingleton ==
    /\ \A i, j \in 1..Len(queries) :
           (i < j /\ queries[i].succeeded) =>
               (~queries[j].created /\ queries[j].agent = queries[i].agent)
    /\ \A i \in 1..Len(queries) :
           queries[i].agent = NoAgent =>
               /\ queries[i].created
               /\ i < Len(queries) => queries[i + 1].created
               /\ i = Len(queries) => research_agent = NoAgent
    /\ Cardinality({i \in 1..Len(queries) : queries[i].succeeded}) <= 1

LazySingletonWitness ==
    /\ Len(queries) >= 4
    /\ queries[1].agent = NoAgent
    /\ queries[2].succeeded
    /\ queries[3].agent = queries[2].agent
    /\ queries[4].agent = queries[2].agent
    /\ creations = 2

====
